---- MODULE Spec2Model ----
(***************************************************************************)
(* Model of decman/config.py: the Commands class (twenty operations, each  *)
(* returning the argument vector of one external program), the module      *)
(* global `commands` holding the active instance, and the scalar module    *)
(* globals.  Vectors are sequences of strings; a string is one token.      *)
(***************************************************************************)
EXTENDS Naturals, Sequences, FiniteSets

\* ------------------------------------------------------------------ bounds

\* Longest list a caller passes (pkgs, units, pkg_files, ...).
MaxLen == 2

\* Most assignments to module globals in one behaviour (all fields together).
MaxAssign == 2

\* Strings callers pass; "-I" is also a literal flag of make_chroot_pkg.
Strs == {"foo", "-I"}

\* Interpreter threads; the sequential specifications run Main only.
Threads == {"t1", "t2"}

Main == "t1"

\* Lists of at most n strings drawn from S.
BoundedSeq(S, n) == UNION {[1..k -> S] : k \in 0..n}

Lists == BoundedSeq(Strs, MaxLen)

\* ------------------------------------------------------------ Commands

list_pkgs == <<"pacman", "-Qeq", "--color=never">>

list_foreign_pkgs_versioned == <<"pacman", "-Qm", "--color=never">>

\* install_pkgs marking the packages as dependencies, as install_files does.
install_pkgs_asdeps(pkgs) == <<"pacman", "-S", "--asdeps">> \o pkgs

install_pkgs(pkgs) == <<"pacman", "-S", "--asexplicit">> \o pkgs

install_files(pkg_files) == <<"pacman", "-U", "--asdeps">> \o pkg_files

set_as_explicitly_installed(pkgs) == <<"pacman", "-D", "--asexplicit">> \o pkgs

install_deps(deps) == <<"pacman", "-S", "--needed", "--asdeps">> \o deps

is_installable(pkg) == <<"pacman", "-Sddp", pkg>>

upgrade == <<"pacman", "-Syu">>

\* remove returning no command when there is nothing to remove.
remove_nothing(pkgs) ==
    IF pkgs = <<>> THEN <<>> ELSE <<"pacman", "-Rs">> \o pkgs

remove(pkgs) == <<"pacman", "-Rs">> \o pkgs

enable_units(units) == <<"systemctl", "enable", "--now", "--quiet">> \o units

disable_units(units) == <<"systemctl", "disable", "--quiet">> \o units

enable_user_units(units) ==
    <<"systemctl", "enable", "--now", "--quiet", "--user">> \o units

disable_user_units(units) == <<"systemctl", "disable", "--quiet">> \o units

compare_versions(installed_version, new_version) ==
    <<"vercmp", installed_version, new_version>>

\* git_clone with its two positional arguments exchanged.
git_clone_swapped(repo, dest) == <<"git", "clone", dest, repo>>

git_clone(repo, dest) == <<"git", "clone", repo, dest>>

git_diff(from_commit) == <<"git", "diff", from_commit>>

git_get_commit_id == <<"git", "rev-parse", "HEAD">>

review_file(file) == <<"less", file>>

make_chroot(chroot_root_dir, with_pkgs) ==
    <<"mkarchroot", chroot_root_dir>> \o with_pkgs

\* make_chroot_pkg, line 159: the fresh local list.
makechrootpkg_init(chroot_dir, user) ==
    <<"makechrootpkg", "-r", chroot_dir, "-U", user>>

\* The extension with the flag after the file it belongs to.
makechrootpkg_extend_swapped(makechrootpkg_cmd, pkgfile) ==
    makechrootpkg_cmd \o <<pkgfile, "-I">>

\* make_chroot_pkg, line 162: one iteration's in-place extension.
makechrootpkg_extend(makechrootpkg_cmd, pkgfile) ==
    makechrootpkg_cmd \o <<"-I", pkgfile>>

\* make_chroot_pkg run from entry to return by one caller.
RECURSIVE makechrootpkg_loop(_, _, _)
makechrootpkg_loop(makechrootpkg_cmd, pkgfiles_to_install, i) ==
    IF i > Len(pkgfiles_to_install)
    THEN makechrootpkg_cmd
    ELSE makechrootpkg_loop(
             makechrootpkg_extend(makechrootpkg_cmd, pkgfiles_to_install[i]),
             pkgfiles_to_install, i + 1)

make_chroot_pkg(chroot_dir, user, pkgfiles_to_install) ==
    makechrootpkg_loop(makechrootpkg_init(chroot_dir, user),
                       pkgfiles_to_install, 1)

\* ------------------------------------------------------ calls and arguments

NullaryOps == {"list_pkgs", "list_foreign_pkgs_versioned", "upgrade",
               "git_get_commit_id"}

ListOps == {"install_pkgs", "install_files", "set_as_explicitly_installed",
            "install_deps", "remove", "enable_units", "disable_units",
            "enable_user_units", "disable_user_units"}

OneStrOps == {"is_installable", "git_diff", "review_file"}

TwoStrOps == {"compare_versions", "git_clone"}

Ops == NullaryOps \cup ListOps \cup OneStrOps \cup TwoStrOps
           \cup {"make_chroot", "make_chroot_pkg"}

\* The actual parameters of one call: the string parameters in signature
\* order (strs) and the list parameter (lst, empty when the method has none).
ArgsOf(op) ==
    IF op \in NullaryOps THEN {[strs |-> <<>>, lst |-> <<>>]}
    ELSE IF op \in ListOps THEN {[strs |-> <<>>, lst |-> l] : l \in Lists}
    ELSE IF op \in OneStrOps THEN {[strs |-> <<s>>, lst |-> <<>>] : s \in Strs}
    ELSE IF op \in TwoStrOps
         THEN {[strs |-> <<s, u>>, lst |-> <<>>] : s \in Strs, u \in Strs}
    ELSE IF op = "make_chroot"
         THEN {[strs |-> <<s>>, lst |-> l] : s \in Strs, l \in Lists}
    ELSE {[strs |-> <<s, u>>, lst |-> l] : s \in Strs, u \in Strs, l \in Lists}

NoArgs == [strs |-> <<>>, lst |-> <<>>]

\* The method table of class Commands.
Default(op, a) ==
    CASE op = "list_pkgs" -> list_pkgs
      [] op = "list_foreign_pkgs_versioned" -> list_foreign_pkgs_versioned
      [] op = "install_pkgs" -> install_pkgs(a.lst)
      [] op = "install_files" -> install_files(a.lst)
      [] op = "set_as_explicitly_installed" -> set_as_explicitly_installed(a.lst)
      [] op = "install_deps" -> install_deps(a.lst)
      [] op = "is_installable" -> is_installable(a.strs[1])
      [] op = "upgrade" -> upgrade
      [] op = "remove" -> remove(a.lst)
      [] op = "enable_units" -> enable_units(a.lst)
      [] op = "disable_units" -> disable_units(a.lst)
      [] op = "enable_user_units" -> enable_user_units(a.lst)
      [] op = "disable_user_units" -> disable_user_units(a.lst)
      [] op = "compare_versions" -> compare_versions(a.strs[1], a.strs[2])
      [] op = "git_clone" -> git_clone(a.strs[1], a.strs[2])
      [] op = "git_diff" -> git_diff(a.strs[1])
      [] op = "git_get_commit_id" -> git_get_commit_id
      [] op = "review_file" -> review_file(a.strs[1])
      [] op = "make_chroot" -> make_chroot(a.strs[1], a.lst)
      [] op = "make_chroot_pkg" -> make_chroot_pkg(a.strs[1], a.strs[2], a.lst)

\* ------------------------------------------------- substitute command sets

\* Methods the modelled child classes redefine: a parameterless method, a
\* list method and the method with the loop.
Overridable == {"upgrade", "install_pkgs", "make_chroot_pkg"}

\* An instance is identified by the methods its class redefines: {} is
\* Commands itself, {m} a child class of Commands redefining m.
DefaultImpl == {}

Impl == {DefaultImpl} \cup {{m} : m \in Overridable}

\* What a child class's own method returns: a vector of another program.
Substitute(op, a) == <<"substitute", op>> \o a.strs \o a.lst

\* Lookup on a class that replaces Commands instead of inheriting from it.
ResolveNoInherit(self, op) == IF self # {} THEN "child" ELSE "Commands"

\* Attribute lookup on an instance: the child class's method when it
\* redefines op, the inherited Commands method otherwise.
Resolve(self, op) == IF op \in self THEN "child" ELSE "Commands"

Invoke(self, op, a) ==
    IF Resolve(self, op) = "child" THEN Substitute(op, a) ELSE Default(op, a)

\* ------------------------------------------------------------------ state

VARIABLES
    commands,        \* the active Commands instance
    debug_output,
    quiet_output,
    valid_pkgexts,
    makepkg_user,
    build_dir,
    pkg_cache_dir,
    aur_rpc_timeout, \* Optional[int]: <<>> is None, <<n>> is n
    assigns,         \* per global, the assignments made after import
    frames,          \* per thread, its current or last call
    kept             \* a vector a caller kept from an earlier call, if any

scalars == <<debug_output, quiet_output, valid_pkgexts, makepkg_user,
             build_dir, pkg_cache_dir, aur_rpc_timeout>>

config == <<commands, debug_output, quiet_output, valid_pkgexts,
            makepkg_user, build_dir, pkg_cache_dir, aur_rpc_timeout>>

vars == <<commands, debug_output, quiet_output, valid_pkgexts, makepkg_user,
          build_dir, pkg_cache_dir, aur_rpc_timeout, assigns, frames, kept>>

Fields == {"commands", "debug_output", "quiet_output", "valid_pkgexts",
           "makepkg_user", "build_dir", "pkg_cache_dir", "aur_rpc_timeout"}

default_valid_pkgexts ==
    <<".pkg.tar", ".pkg.tar.gz", ".pkg.tar.bz2", ".pkg.tar.xz",
      ".pkg.tar.zst", ".pkg.tar.lzo", ".pkg.tar.lrz", ".pkg.tar.lz4",
      ".pkg.tar.lz", ".pkg.tar.Z">>

default_makepkg_user == "nobody"

default_build_dir == "/tmp/decman/build"

default_pkg_cache_dir == "/var/cache/decman"

\* The timeout left unset by default.
default_aur_rpc_timeout_unset == <<>>

default_aur_rpc_timeout == <<30>>

IdleFrame ==
    [pc |-> "idle", op |-> "none", args |-> NoArgs, passed |-> NoArgs,
     self |-> DefaultImpl, epoch |-> 0, makechrootpkg_cmd |-> <<>>, i |-> 0,
     result |-> <<>>]

\* The module right after import (lines 167-187).
Init ==
    /\ commands = DefaultImpl
    /\ debug_output = FALSE
    /\ quiet_output = FALSE
    /\ valid_pkgexts = default_valid_pkgexts
    /\ makepkg_user = default_makepkg_user
    /\ build_dir = default_build_dir
    /\ pkg_cache_dir = default_pkg_cache_dir
    /\ aur_rpc_timeout = default_aur_rpc_timeout
    /\ assigns = [f \in Fields |-> 0]
    /\ frames = [t \in Threads |-> IdleFrame]
    /\ kept = <<>>

\* ---------------------------------------------------------------- actions

\* A name bound by `from decman.config import commands`: the instance of
\* import time.
HolderImported == DefaultImpl

\* What a call site reaches through `decman.config.commands`: the module
\* attribute, read at the call.
Holder == commands

\* One list shared by every call instead of a list per call.
LocalShared(t) == Main

\* The frame in which thread t's call binds the name makechrootpkg_cmd: its
\* own, the list of line 159 being created inside the call.
Local(t) == t

InCall(t) == frames[t].pc = "loop"

\* A method that builds its vector inside the list it was passed.
CallMethodInPlace(t, op, a) ==
    /\ frames[t].pc = "idle"
    /\ a \in ArgsOf(op)
    /\ ~(op = "make_chroot_pkg" /\ Resolve(commands, op) = "Commands")
    /\ frames' = [frames EXCEPT ![t] =
           [pc |-> "done", op |-> op,
            args |-> IF op \in ListOps
                     THEN [a EXCEPT !.lst = Invoke(commands, op, a)]
                     ELSE a,
            passed |-> a, self |-> commands, epoch |-> assigns["commands"],
            makechrootpkg_cmd |-> <<>>, i |-> 0,
            result |-> Invoke(commands, op, a)]]
    /\ UNCHANGED <<config, assigns, kept>>

\* commands.<op>(...) for a method whose body is one return expression (all
\* of Commands but make_chroot_pkg, and every method of a child class).
CallMethod(t, op, a) ==
    /\ frames[t].pc = "idle"
    /\ a \in ArgsOf(op)
    /\ ~(op = "make_chroot_pkg" /\ Resolve(Holder, op) = "Commands")
    /\ frames' = [frames EXCEPT ![t] =
           [pc |-> "done", op |-> op, args |-> a, passed |-> a,
            self |-> Holder, epoch |-> assigns["commands"],
            makechrootpkg_cmd |-> <<>>, i |-> 0,
            result |-> Invoke(Holder, op, a)]]
    /\ UNCHANGED <<config, assigns, kept>>

\* Commands.make_chroot_pkg up to the loop (line 159).
EnterMakeChrootPkg(t, a) ==
    /\ frames[t].pc = "idle"
    /\ a \in ArgsOf("make_chroot_pkg")
    /\ Resolve(Holder, "make_chroot_pkg") = "Commands"
    /\ frames' = [frames EXCEPT
           ![t] = [pc |-> "loop", op |-> "make_chroot_pkg", args |-> a,
                   passed |-> a, self |-> Holder,
                   epoch |-> assigns["commands"],
                   makechrootpkg_cmd |-> <<>>, i |-> 1, result |-> <<>>],
           ![Local(t)].makechrootpkg_cmd =
               makechrootpkg_init(a.strs[1], a.strs[2])]
    /\ UNCHANGED <<config, assigns, kept>>

\* One iteration of the loop (lines 161-162).
LoopIter(t) ==
    /\ InCall(t)
    /\ frames[t].i <= Len(frames[t].args.lst)
    /\ frames' = [frames EXCEPT
           ![t].i = @ + 1,
           ![Local(t)].makechrootpkg_cmd =
               makechrootpkg_extend(@, frames[t].args.lst[frames[t].i])]
    /\ UNCHANGED <<config, assigns, kept>>

\* The loop is exhausted: return makechrootpkg_cmd (line 164).
ReturnMakeChrootPkg(t) ==
    /\ InCall(t)
    /\ frames[t].i > Len(frames[t].args.lst)
    /\ frames' = [frames EXCEPT
           ![t].pc = "done",
           ![t].result = frames[Local(t)].makechrootpkg_cmd,
           ![t].i = 0,
           ![Local(t)].makechrootpkg_cmd = <<>>]
    /\ UNCHANGED <<config, assigns, kept>>

\* The caller is done with the returned vector; the thread is between calls.
Discard(t) ==
    /\ frames[t].pc = "done"
    /\ frames' = [frames EXCEPT ![t] = IdleFrame]
    /\ UNCHANGED <<config, assigns, kept>>

\* A caller keeps the vector a finished call returned, to compare later.
Keep(t) ==
    /\ frames[t].pc = "done"
    /\ kept = <<>>
    /\ kept' = <<[op |-> frames[t].op, args |-> frames[t].passed,
                  self |-> frames[t].self, result |-> frames[t].result]>>
    /\ UNCHANGED <<config, assigns, frames>>

\* Assignments to the module globals, made by the main thread between calls.
Assigned == assigns["commands"] + assigns["debug_output"]
                + assigns["quiet_output"] + assigns["valid_pkgexts"]
                + assigns["makepkg_user"] + assigns["build_dir"]
                + assigns["pkg_cache_dir"] + assigns["aur_rpc_timeout"]

MayAssign == Assigned < MaxAssign /\ ~InCall(Main)

Count(f) == assigns' = [assigns EXCEPT ![f] = @ + 1]

\* decman.config.commands = <instance> (docstring, lines 19-20).
AssignCommands(impl) ==
    /\ MayAssign
    /\ impl \in Impl
    /\ commands' = impl
    /\ Count("commands")
    /\ UNCHANGED <<scalars, frames, kept>>

AssignDebugOutput(v) ==
    /\ MayAssign
    /\ v \in BOOLEAN
    /\ debug_output' = v
    /\ Count("debug_output")
    /\ UNCHANGED <<commands, quiet_output, valid_pkgexts, makepkg_user,
                   build_dir, pkg_cache_dir, aur_rpc_timeout, frames, kept>>

AssignQuietOutput(v) ==
    /\ MayAssign
    /\ v \in BOOLEAN
    /\ quiet_output' = v
    /\ Count("quiet_output")
    /\ UNCHANGED <<commands, debug_output, valid_pkgexts, makepkg_user,
                   build_dir, pkg_cache_dir, aur_rpc_timeout, frames, kept>>

AssignValidPkgexts(v) ==
    /\ MayAssign
    /\ v \in {default_valid_pkgexts, <<".pkg.tar.zst">>}
    /\ valid_pkgexts' = v
    /\ Count("valid_pkgexts")
    /\ UNCHANGED <<commands, debug_output, quiet_output, makepkg_user,
                   build_dir, pkg_cache_dir, aur_rpc_timeout, frames, kept>>

AssignMakepkgUser(v) ==
    /\ MayAssign
    /\ v \in {default_makepkg_user, "build"}
    /\ makepkg_user' = v
    /\ Count("makepkg_user")
    /\ UNCHANGED <<commands, debug_output, quiet_output, valid_pkgexts,
                   build_dir, pkg_cache_dir, aur_rpc_timeout, frames, kept>>

AssignBuildDir(v) ==
    /\ MayAssign
    /\ v \in {default_build_dir, "/var/build"}
    /\ build_dir' = v
    /\ Count("build_dir")
    /\ UNCHANGED <<commands, debug_output, quiet_output, valid_pkgexts,
                   makepkg_user, pkg_cache_dir, aur_rpc_timeout, frames, kept>>

AssignPkgCacheDir(v) ==
    /\ MayAssign
    /\ v \in {default_pkg_cache_dir, "/var/pkg"}
    /\ pkg_cache_dir' = v
    /\ Count("pkg_cache_dir")
    /\ UNCHANGED <<commands, debug_output, quiet_output, valid_pkgexts,
                   makepkg_user, build_dir, aur_rpc_timeout, frames, kept>>

AssignAurRpcTimeout(v) ==
    /\ MayAssign
    /\ v \in {default_aur_rpc_timeout, <<>>, <<0>>}
    /\ aur_rpc_timeout' = v
    /\ Count("aur_rpc_timeout")
    /\ UNCHANGED <<commands, debug_output, quiet_output, valid_pkgexts,
                   makepkg_user, build_dir, pkg_cache_dir, frames, kept>>

\* ---------------------------------------------------------- specifications

\* One thread calling operations through the holder, and replacing the
\* holder's instance between calls.
Next ==
    \/ \E op \in Ops : \E a \in ArgsOf(op) : CallMethod(Main, op, a)
    \/ \E a \in ArgsOf("make_chroot_pkg") : EnterMakeChrootPkg(Main, a)
    \/ LoopIter(Main)
    \/ ReturnMakeChrootPkg(Main)
    \/ Discard(Main)
    \/ \E impl \in Impl : AssignCommands(impl)

Spec == Init /\ [][Next]_vars

\* One thread calling the default operations, a caller keeping one vector.
NextPure ==
    \/ \E op \in Ops : \E a \in ArgsOf(op) : CallMethod(Main, op, a)
    \/ \E a \in ArgsOf("make_chroot_pkg") : EnterMakeChrootPkg(Main, a)
    \/ LoopIter(Main)
    \/ ReturnMakeChrootPkg(Main)
    \/ Discard(Main)
    \/ Keep(Main)

SpecPure == Init /\ [][NextPure]_vars

\* Startup customisation: assignments to every global, and calls.
NextConfig ==
    \/ \E op \in Ops : \E a \in ArgsOf(op) : CallMethod(Main, op, a)
    \/ \E a \in ArgsOf("make_chroot_pkg") : EnterMakeChrootPkg(Main, a)
    \/ LoopIter(Main)
    \/ ReturnMakeChrootPkg(Main)
    \/ Discard(Main)
    \/ \E impl \in Impl : AssignCommands(impl)
    \/ \E v \in BOOLEAN : AssignDebugOutput(v)
    \/ \E v \in BOOLEAN : AssignQuietOutput(v)
    \/ \E v \in {default_valid_pkgexts, <<".pkg.tar.zst">>} :
           AssignValidPkgexts(v)
    \/ \E v \in {default_makepkg_user, "build"} : AssignMakepkgUser(v)
    \/ \E v \in {default_build_dir, "/var/build"} : AssignBuildDir(v)
    \/ \E v \in {default_pkg_cache_dir, "/var/pkg"} : AssignPkgCacheDir(v)
    \/ \E v \in {default_aur_rpc_timeout, <<>>, <<0>>} :
           AssignAurRpcTimeout(v)

SpecConfig == Init /\ [][NextConfig]_vars

\* The configuration no longer changes; several threads call concurrently.
NextConc ==
    \/ \E t \in Threads : \E op \in Ops : \E a \in ArgsOf(op) :
           CallMethod(t, op, a)
    \/ \E t \in Threads : \E a \in ArgsOf("make_chroot_pkg") :
           EnterMakeChrootPkg(t, a)
    \/ \E t \in Threads : LoopIter(t)
    \/ \E t \in Threads : ReturnMakeChrootPkg(t)
    \/ \E t \in Threads : Discard(t)

SpecConc == Init /\ [][NextConc]_vars

\* ------------------------------------------------------------------ claims

Done(t) == frames[t].pc = "done"

\* Thread t holds the vector a method of Commands itself returned.
DoneDefault(t) == Done(t) /\ frames[t].self = DefaultImpl

Contains(vec, tok) == \E k \in 1..Len(vec) : vec[k] = tok

\* The tokens of s at the positions in P, in order.
Pick(s, P) ==
    LET F[k \in 0..Len(s)] ==
            IF k = 0 THEN <<>>
            ELSE IF k \in P THEN Append(F[k - 1], s[k]) ELSE F[k - 1]
    IN  F[Len(s)]

\* The strings the caller supplied, in signature order.
CallerTokens(a) == a.strs \o a.lst

\* Arguments of the same shape as a with every caller string replaced by a
\* marker that is no literal of any operation.
Marked(a) ==
    [strs |-> [k \in 1..Len(a.strs) |-> "?"],
     lst |-> [k \in 1..Len(a.lst) |-> "?"]]

IsLiteral(tok) == tok # "?"

\* The tokens of op's vector that are not caller strings, read off the
\* vector for marked arguments.
LiteralPart(op, a) == SelectSeq(Default(op, Marked(a)), IsLiteral)

Programs == {"pacman", "systemctl", "vercmp", "git", "less", "mkarchroot",
             "makechrootpkg"}

\* C1: the vector of the default disable_user_units(units) contains the token
\* "--user" and differs from the vector of disable_units(units), for every
\* list of units, the empty list included.
C1_DisableUserUnitsIsUserScoped ==
    \A t \in Threads :
        (DoneDefault(t) /\ frames[t].op = "disable_user_units") =>
            /\ Contains(frames[t].result, "--user")
            /\ frames[t].result # disable_units(frames[t].passed.lst)

\* C2: the default make_chroot_pkg(c, u, fs) returns "makechrootpkg", "-r",
\* c, "-U", u followed by the pair "-I", f for each f of fs in input order:
\* 5 + 2n tokens; the vector for ("/c", "build", two package files) is the
\* nine-token vector the specification gives.
C2_MakeChrootPkgVector ==
    /\ \A t \in Threads :
        (DoneDefault(t) /\ frames[t].op = "make_chroot_pkg") =>
            LET r == frames[t].result
                fs == frames[t].passed.lst
            IN  /\ Len(r) = 5 + 2 * Len(fs)
                /\ SubSeq(r, 1, 5) = <<"makechrootpkg", "-r",
                                       frames[t].passed.strs[1], "-U",
                                       frames[t].passed.strs[2]>>
                /\ \A k \in 1..Len(fs) :
                       r[4 + 2 * k] = "-I" /\ r[5 + 2 * k] = fs[k]
    /\ make_chroot_pkg("/c", "build", <<"a.pkg.tar.zst", "b.pkg.tar.zst">>)
           = <<"makechrootpkg", "-r", "/c", "-U", "build",
               "-I", "a.pkg.tar.zst", "-I", "b.pkg.tar.zst">>

C2_Witness ==
    /\ DoneDefault(Main)
    /\ frames[Main].op = "make_chroot_pkg"
    /\ Len(frames[Main].passed.lst) = 2
    /\ frames[Main].passed.lst[1] # frames[Main].passed.lst[2]

\* C3: the default install_pkgs(pkgs) returns "pacman", "-S", "--asexplicit"
\* followed by pkgs in input order and nothing else (3 + len(pkgs) tokens);
\* install_pkgs(["foo", "bar"]) is the five-token vector of the specification.
C3_InstallPkgsVector ==
    /\ \A t \in Threads :
        (DoneDefault(t) /\ frames[t].op = "install_pkgs") =>
            LET r == frames[t].result
                pkgs == frames[t].passed.lst
            IN  /\ Len(r) = 3 + Len(pkgs)
                /\ r[1] = "pacman" /\ r[2] = "-S" /\ r[3] = "--asexplicit"
                /\ \A k \in 1..Len(pkgs) : r[3 + k] = pkgs[k]
    /\ install_pkgs(<<"foo", "bar">>)
           = <<"pacman", "-S", "--asexplicit", "foo", "bar">>

C3_Witness ==
    /\ DoneDefault(Main)
    /\ frames[Main].op = "install_pkgs"
    /\ Len(frames[Main].passed.lst) = 2
    /\ frames[Main].passed.lst[1] # frames[Main].passed.lst[2]

\* C4: every default operation, on every input (empty lists included),
\* returns a vector of at least one token whose first token is one of the
\* seven program names and is the same for every input of that operation;
\* a call that entered make_chroot_pkg can always take its next step.
C4_ProgramNameFirst ==
    \A t \in Threads :
        /\ DoneDefault(t) =>
            /\ Len(frames[t].result) >= 1
            /\ frames[t].result[1] \in Programs
            /\ \A b \in ArgsOf(frames[t].op) :
                   Default(frames[t].op, b)[1] = frames[t].result[1]
        /\ InCall(t) => frames[t].i \in 1..(Len(frames[t].args.lst) + 1)

C4_Witness ==
    /\ DoneDefault(Main)
    /\ frames[Main].op = "remove"
    /\ frames[Main].passed.lst = <<>>

\* C5: when the holder's instance is of a child class redefining exactly one
\* operation, a call of that operation returns the child's vector and a call
\* of any other operation returns the vector of the default Commands for the
\* same input.
C5_OverrideOneKeepsRest ==
    \A t \in Threads :
        (Done(t) /\ Cardinality(frames[t].self) = 1) =>
            IF frames[t].op \in frames[t].self
            THEN frames[t].result = Substitute(frames[t].op, frames[t].passed)
            ELSE frames[t].result = Default(frames[t].op, frames[t].passed)

C5_Witness ==
    /\ Done(Main)
    /\ frames[Main].self = {"upgrade"}
    /\ frames[Main].op = "make_chroot_pkg"
    /\ Len(frames[Main].passed.lst) = 2

\* C6: the holder holds one instance at a time, and a call made after the
\* latest assignment to `commands` is resolved by the instance that
\* assignment installed, never by an earlier one.
C6_CallsSeeCurrentInstance ==
    /\ commands \in Impl
    /\ \A t \in Threads :
        (frames[t].pc # "idle" /\ frames[t].epoch = assigns["commands"]) =>
            /\ frames[t].self = commands
            /\ Done(t) =>
                   frames[t].result =
                       IF frames[t].op \in commands
                       THEN Substitute(frames[t].op, frames[t].passed)
                       ELSE Default(frames[t].op, frames[t].passed)

C6_Witness ==
    /\ assigns["commands"] = 2
    /\ commands = {"install_pkgs"}
    /\ Done(Main)
    /\ frames[Main].epoch = 2
    /\ frames[Main].op = "install_pkgs"

\* C7: calls of the default operations leave every module global at the
\* value it had, leave the lists passed in as they were, and return for
\* equal inputs a vector equal to the one an earlier call returned, whatever
\* was called in between.
C7_OperationsArePure ==
    /\ commands = DefaultImpl
    /\ debug_output = FALSE
    /\ quiet_output = FALSE
    /\ Len(valid_pkgexts) = 10
    /\ makepkg_user = "nobody"
    /\ build_dir = "/tmp/decman/build"
    /\ pkg_cache_dir = "/var/cache/decman"
    /\ aur_rpc_timeout = <<30>>
    /\ \A t \in Threads :
        /\ frames[t].args = frames[t].passed
        /\ (/\ Done(t)
            /\ kept # <<>>
            /\ kept[1].op = frames[t].op
            /\ kept[1].args = frames[t].passed)
               => frames[t].result = kept[1].result

C7_Witness ==
    /\ kept # <<>>
    /\ kept[1].op = "make_chroot_pkg"
    /\ Done(Main)
    /\ frames[Main].op = "make_chroot_pkg"
    /\ frames[Main].passed = kept[1].args
    /\ Len(kept[1].args.lst) = 2

\* C8: in the vector of a default operation the caller's strings appear each
\* as one token, in input order, and the remaining tokens are the literals
\* of the operation, the same whatever strings the caller supplied.
C8_TokensAtomic ==
    \A t \in Threads :
        DoneDefault(t) =>
            LET r == frames[t].result
                pos == 1..Len(r)
            IN  \E P \in SUBSET pos :
                    /\ Pick(r, P) = CallerTokens(frames[t].passed)
                    /\ Pick(r, pos \ P) =
                           LiteralPart(frames[t].op, frames[t].passed)

C8_Witness ==
    /\ DoneDefault(Main)
    /\ frames[Main].op = "git_clone"
    /\ frames[Main].passed.strs = <<"-I", "foo">>

\* C9 as stated: no field of the configuration is assigned twice.
C9_AssignedAtMostOnce == \A f \in Fields : assigns[f] <= 1

\* C9 as amended: every field starts at its default value and keeps it until
\* an assignment to that field; how often a field is assigned is not limited.
C9_DefaultUntilAssigned ==
    /\ assigns["commands"] = 0 => commands = {}
    /\ assigns["debug_output"] = 0 => debug_output = FALSE
    /\ assigns["quiet_output"] = 0 => quiet_output = FALSE
    /\ assigns["valid_pkgexts"] = 0 =>
           Len(valid_pkgexts) = 10 /\ valid_pkgexts[5] = ".pkg.tar.zst"
    /\ assigns["makepkg_user"] = 0 => makepkg_user = "nobody"
    /\ assigns["build_dir"] = 0 => build_dir = "/tmp/decman/build"
    /\ assigns["pkg_cache_dir"] = 0 => pkg_cache_dir = "/var/cache/decman"
    /\ assigns["aur_rpc_timeout"] = 0 => aur_rpc_timeout = <<30>>

C9_Witness ==
    /\ assigns["makepkg_user"] = 2
    /\ makepkg_user = "build"
    /\ assigns["aur_rpc_timeout"] = 0
    /\ Done(Main)

\* C10: with the configuration stable, under every interleaving of the
\* threads each call returns the vector it returns when run alone on the
\* same inputs, and the vector a call is building holds exactly what its
\* own iterations put there.
C10_ConcurrentCallsIsolated ==
    \A t \in Threads :
        /\ Done(t) =>
               frames[t].result = Default(frames[t].op, frames[t].passed)
        /\ InCall(t) =>
               frames[t].makechrootpkg_cmd =
                   make_chroot_pkg(frames[t].passed.strs[1],
                                   frames[t].passed.strs[2],
                                   SubSeq(frames[t].passed.lst, 1,
                                          frames[t].i - 1))
        /\ ~InCall(t) => frames[t].makechrootpkg_cmd = <<>>

C10_Witness ==
    /\ InCall("t1") /\ InCall("t2")
    /\ frames["t1"].i = 2 /\ frames["t2"].i = 2
    /\ frames["t1"].passed # frames["t2"].passed

====
